---- MODULE Spec2Model ----
(***************************************************************************)
(* Model of dsp/modules/qianfan.py: the QianfanLM adapter.                 *)
(*                                                                         *)
(* Python values are modelled as follows.                                  *)
(*   - a dict with string keys is a function whose DOMAIN is its key set;  *)
(*   - an Optional[T] is a sequence of length 0 (None) or 1 (the value);   *)
(*   - a list is a sequence;                                               *)
(*   - the float literals of the source are kept as their decimal text.    *)
(* The vendor client (qianfan.ChatCompletion / qianfan.Completion) is      *)
(* outside the repository: what its do() produces is an input of every     *)
(* call, either an exception or a response mapping.                        *)
(***************************************************************************)
EXTENDS Integers, Sequences, FiniteSets, TLC

VARIABLES
    model_type,   \* self.model_type
    client,       \* which vendor class self.client is an instance of
    kwargs,       \* self.kwargs
    history,      \* self.history
    log,          \* records emitted through logging.debug, oldest first
    sent,         \* option mappings handed to client.do during the last call
    events,       \* what the last call did, in program order
    status,       \* how the last call ended: "none", "returned" or "raised"
    error,        \* the exception the last call raised, if any
    retval,       \* <<value>> when the last call returned
    last,         \* arguments of the last call
    pre,          \* history and log as they were when the last call started
    ctor,         \* constructor arguments and the configuration they produced
    invoked,      \* one entry per run of basic_request's body, in call order
    nusage,       \* __call__ responses counted by the shape of their usage
    ncalls        \* number of calls made so far

vars == <<model_type, client, kwargs, history, log, sent, events, status,
          error, retval, last, pre, ctor, invoked, nusage, ncalls>>

----------------------------------------------------------------------------
(* Bounds and input sets *)

MaxCalls == 2

EmptyDict == [k \in {} |-> ""]

None == <<>>

Some(v) == <<v>>

Prompts == {"hello", "bye"}

ModelTypes == {"chat", "completion"}

\* Constructor argument bundles.  **kwargs of __init__ cannot name one of
\* its declared parameters, but it can name "prompt" or "messages".
CtorArgs ==
    { [model |-> "ERNIE-4.0-Turbo-8K", endpoint |-> None,
       retry_count |-> None, request_timeout |-> None,
       backoff_factor |-> None, kwargs |-> EmptyDict],
      [model |-> "ERNIE-4.0-Turbo-8K", endpoint |-> Some("ep0"),
       retry_count |-> Some(3), request_timeout |-> None,
       backoff_factor |-> None, kwargs |-> [temperature |-> "0.1"]],
      [model |-> "ERNIE-4.0-Turbo-8K", endpoint |-> None,
       retry_count |-> None, request_timeout |-> Some(10),
       backoff_factor |-> Some(2),
       kwargs |-> [prompt |-> "dflt",
                   messages |-> <<[role |-> "system", content |-> "dflt"]>>]] }

\* Per-call **kwargs.  They cannot name "prompt" (the positional parameter
\* of basic_request, request and __call__).
Overrides ==
    { EmptyDict,
      [temperature |-> "0.2", model |-> "ERNIE-Speed", endpoint |-> "ep1"],
      [retry_count |-> 5, request_timeout |-> 5, backoff_factor |-> 5,
       messages |-> <<[role |-> "system", content |-> "ovr"]>>] }

\* Response mappings the vendor client may return.
Responses ==
    { [body |-> [result |-> "ok"], usage |-> [total_tokens |-> 42]],
      [body |-> [result |-> "ok"]],
      [body |-> [result |-> "ok"], usage |-> EmptyDict],
      [usage |-> [prompt_tokens |-> 7]],
      [body |-> EmptyDict] }

VendorErrors == {"APIError"}

Outcomes ==
    { [kind |-> "return", response |-> r, error |-> ""] : r \in Responses }
    \cup
    { [kind |-> "raise", response |-> EmptyDict, error |-> e] : e \in VendorErrors }

----------------------------------------------------------------------------
(* Python dict and formatting primitives *)

\* {**a, **b}
DictMerge(a, b) ==
    [k \in DOMAIN a \cup DOMAIN b |-> IF k \in DOMAIN b THEN b[k] ELSE a[k]]

\* d[k] = v
DictSet(d, k, v) ==
    [x \in DOMAIN d \cup {k} |-> IF x = k THEN v ELSE d[x]]

\* d.get(k)
DictGet(d, k) == IF k \in DOMAIN d THEN Some(d[k]) ELSE None

\* d[k] = v only when the optional argument is not None
DictSetIfGiven(d, k, opt) == IF opt # None THEN DictSet(d, k, opt[1]) ELSE d

DigitChar(d) ==
    CASE d = 0 -> "0" [] d = 1 -> "1" [] d = 2 -> "2" [] d = 3 -> "3"
      [] d = 4 -> "4" [] d = 5 -> "5" [] d = 6 -> "6" [] d = 7 -> "7"
      [] d = 8 -> "8" [] d = 9 -> "9"

RECURSIVE DecimalDigits(_)
\* str(n) for a natural number, as the sequence of its digit characters
DecimalDigits(n) ==
    IF n < 10 THEN <<DigitChar(n)>>
    ELSE Append(DecimalDigits(n \div 10), DigitChar(n % 10))

\* f"{x}" where x is the result of dict.get
FormatOptional(opt) ==
    IF opt = None THEN <<"N", "o", "n", "e">> ELSE DecimalDigits(opt[1])

----------------------------------------------------------------------------
(* QianfanLM *)

\* __init__, the client selection
SelectClient(mt) == IF mt = "chat" THEN "ChatCompletion" ELSE "Completion"

\* As InitKwargs, but a retry_count left out is filled in with 0.
InitKwargs_DefaultRetry(a) ==
    LET k0 == DictMerge([temperature |-> "0.7", top_p |-> 1, stream |-> FALSE],
                        a.kwargs)
        k1 == DictSet(k0, "model", a.model)
        k2 == DictSetIfGiven(k1, "endpoint", a.endpoint)
        k3 == DictSet(k2, "retry_count",
                      IF a.retry_count # None THEN a.retry_count[1] ELSE 0)
        k4 == DictSetIfGiven(k3, "request_timeout", a.request_timeout)
    IN  DictSetIfGiven(k4, "backoff_factor", a.backoff_factor)

\* __init__, the construction of self.kwargs
InitKwargs(a) ==
    LET k0 == DictMerge([temperature |-> "0.7", top_p |-> 1, stream |-> FALSE],
                        a.kwargs)
        k1 == DictSet(k0, "model", a.model)
        k2 == DictSetIfGiven(k1, "endpoint", a.endpoint)
        k3 == DictSetIfGiven(k2, "retry_count", a.retry_count)
        k4 == DictSetIfGiven(k3, "request_timeout", a.request_timeout)
    IN  DictSetIfGiven(k4, "backoff_factor", a.backoff_factor)

\* __init__: the instance it leaves behind
QianfanLM_init(a, mt) ==
    [model_type |-> mt,
     client     |-> SelectClient(mt),
     kwargs     |-> InitKwargs(a),
     history    |-> <<>>]

\* As MergeKwargs, with the two operands of the merge exchanged.
MergeKwargs_DefaultsWin(self_kwargs, call_kwargs) ==
    DictMerge(call_kwargs, self_kwargs)

\* basic_request: kwargs = {**self.kwargs, **kwargs}
MergeKwargs(self_kwargs, call_kwargs) == DictMerge(self_kwargs, call_kwargs)

\* As ShapeRequest, but the prompt is wrapped as messages in both modes.
ShapeRequest_AlwaysMessages(mt, kw, prompt) ==
    DictSet(kw, "messages", <<[role |-> "user", content |-> prompt]>>)

\* basic_request: the prompt-carrying key
ShapeRequest(mt, kw, prompt) ==
    IF mt = "chat"
    THEN DictSet(kw, "messages", <<[role |-> "user", content |-> prompt]>>)
    ELSE DictSet(kw, "prompt", prompt)

\* As AppendHistory, but the record is inserted at the front.
AppendHistory_Front(h, prompt, response, kw, raw_kwargs) ==
    <<[prompt |-> prompt, response |-> response,
       kwargs |-> kw, raw_kwargs |-> raw_kwargs]>> \o h

\* basic_request: self.history.append(history)
AppendHistory(h, prompt, response, kw, raw_kwargs) ==
    Append(h, [prompt |-> prompt, response |-> response,
               kwargs |-> kw, raw_kwargs |-> raw_kwargs])

\* As basic_request, but the record is appended in a finally clause, so a
\* call the vendor client fails is recorded too.
basic_request_RecordsFailure(self, prompt, raw_kwargs, outcome) ==
    LET kw == ShapeRequest(self.model_type,
                           MergeKwargs(self.kwargs, raw_kwargs), prompt)
        s2 == [self EXCEPT !.history =
                  AppendHistory(@, prompt, outcome.response, kw, raw_kwargs)]
    IN  IF outcome.kind = "raise"
        THEN [self   |-> s2,
              sent   |-> <<kw>>,
              events |-> <<"client.do", "history.append">>,
              status |-> "raised",
              error  |-> outcome.error,
              retval |-> None]
        ELSE [self   |-> s2,
              sent   |-> <<kw>>,
              events |-> <<"client.do", "history.append">>,
              status |-> "returned",
              error  |-> "",
              retval |-> Some(outcome.response)]

\* As basic_request, but the merge is done in place on self.kwargs
\* (kwargs = self.kwargs; kwargs.update(...)), so it stays in the instance.
basic_request_InPlace(self, prompt, raw_kwargs, outcome) ==
    LET kw == ShapeRequest(self.model_type,
                           MergeKwargs(self.kwargs, raw_kwargs), prompt)
    IN  IF outcome.kind = "raise"
        THEN [self   |-> [self EXCEPT !.kwargs = kw],
              sent   |-> <<kw>>,
              events |-> <<"client.do">>,
              status |-> "raised",
              error  |-> outcome.error,
              retval |-> None]
        ELSE [self   |-> [self EXCEPT !.kwargs = kw, !.history =
                             AppendHistory(@, prompt, outcome.response,
                                           kw, raw_kwargs)],
              sent   |-> <<kw>>,
              events |-> <<"client.do", "history.append">>,
              status |-> "returned",
              error  |-> "",
              retval |-> Some(outcome.response)]

\* basic_request.  The result carries the instance after the call, the
\* option mappings given to client.do, the steps taken and the way the call
\* ended.
basic_request(self, prompt, raw_kwargs, outcome) ==
    LET kw == ShapeRequest(self.model_type,
                           MergeKwargs(self.kwargs, raw_kwargs), prompt)
    IN  IF outcome.kind = "raise"
        THEN [self   |-> self,
              sent   |-> <<kw>>,
              events |-> <<"client.do">>,
              status |-> "raised",
              error  |-> outcome.error,
              retval |-> None]
        ELSE [self   |-> [self EXCEPT !.history =
                             AppendHistory(@, prompt, outcome.response,
                                           kw, raw_kwargs)],
              sent   |-> <<kw>>,
              events |-> <<"client.do", "history.append">>,
              status |-> "returned",
              error  |-> "",
              retval |-> Some(outcome.response)]

\* request
request(self, prompt, raw_kwargs, outcome) ==
    basic_request(self, prompt, raw_kwargs, outcome)

\* As log_usage, but the test is "usage" in response rather than the
\* truth value of the mapping.
log_usage_KeyPresent(lg, response) ==
    LET usage_data == DictGet(response, "usage")
    IN  IF usage_data # None
        THEN Append(lg, [level |-> "DEBUG",
                         prefix |-> "Qianfan Response Token Usage: ",
                         total_tokens |->
                             FormatOptional(DictGet(usage_data[1],
                                                    "total_tokens"))])
        ELSE lg

\* log_usage: the logging records after the call
log_usage(lg, response) ==
    LET usage_data == DictGet(response, "usage")
    IN  IF usage_data # None /\ DOMAIN usage_data[1] # {}
        THEN Append(lg, [level |-> "DEBUG",
                         prefix |-> "Qianfan Response Token Usage: ",
                         total_tokens |->
                             FormatOptional(DictGet(usage_data[1],
                                                    "total_tokens"))])
        ELSE lg

\* As Preconditions, without the second assert.
Preconditions_OnlyCompleted(only_completed, return_sorted) ==
    only_completed

\* __call__: the two assert statements
Preconditions(only_completed, return_sorted) ==
    only_completed /\ ~return_sorted

\* __call__: response["body"]["result"] can be evaluated
HasResult(response) ==
    "body" \in DOMAIN response /\ "result" \in DOMAIN response["body"]

\* As ExtractResult, but the result is never put into the list.
ExtractResult_Empty(response) == <<>>

\* __call__: [response["body"]["result"]]
ExtractResult(response) == <<response["body"]["result"]>>

\* As QianfanLM_call, but the result is extracted before log_usage runs.
QianfanLM_call_ExtractFirst(self, lg, prompt, only_completed, return_sorted, raw_kwargs, outcome) ==
    IF ~Preconditions(only_completed, return_sorted)
    THEN [self |-> self, log |-> lg, sent |-> <<>>, events |-> <<>>,
          status |-> "raised", error |-> "AssertionError", retval |-> None]
    ELSE LET r == request(self, prompt, raw_kwargs, outcome)
         IN  IF r.status = "raised"
             THEN [self |-> r.self, log |-> lg, sent |-> r.sent,
                   events |-> r.events, status |-> "raised",
                   error |-> r.error, retval |-> None]
             ELSE LET response == r.retval[1]
                      ev       == r.events \o <<"extract">>
                  IN  IF HasResult(response)
                      THEN [self |-> r.self,
                            log |-> log_usage(lg, response), sent |-> r.sent,
                            events |-> ev \o <<"log_usage">>,
                            status |-> "returned", error |-> "",
                            retval |-> Some(ExtractResult(response))]
                      ELSE [self |-> r.self, log |-> lg, sent |-> r.sent,
                            events |-> ev,
                            status |-> "raised", error |-> "KeyError",
                            retval |-> None]

\* __call__
QianfanLM_call(self, lg, prompt, only_completed, return_sorted, raw_kwargs, outcome) ==
    IF ~Preconditions(only_completed, return_sorted)
    THEN [self |-> self, log |-> lg, sent |-> <<>>, events |-> <<>>,
          status |-> "raised", error |-> "AssertionError", retval |-> None]
    ELSE LET r == request(self, prompt, raw_kwargs, outcome)
         IN  IF r.status = "raised"
             THEN [self |-> r.self, log |-> lg, sent |-> r.sent,
                   events |-> r.events, status |-> "raised",
                   error |-> r.error, retval |-> None]
             ELSE LET response == r.retval[1]
                      lg2      == log_usage(lg, response)
                      ev       == r.events \o <<"log_usage">>
                  IN  IF HasResult(response)
                      THEN [self |-> r.self, log |-> lg2, sent |-> r.sent,
                            events |-> ev \o <<"extract">>,
                            status |-> "returned", error |-> "",
                            retval |-> Some(ExtractResult(response))]
                      ELSE [self |-> r.self, log |-> lg2, sent |-> r.sent,
                            events |-> ev \o <<"extract">>,
                            status |-> "raised", error |-> "KeyError",
                            retval |-> None]

----------------------------------------------------------------------------
(* The state machine *)

Self == [model_type |-> model_type, client |-> client,
         kwargs |-> kwargs, history |-> history]

Init ==
    \E a \in CtorArgs, mt \in ModelTypes :
        LET s == QianfanLM_init(a, mt)
        IN  /\ model_type = s.model_type
            /\ client = s.client
            /\ kwargs = s.kwargs
            /\ history = s.history
            /\ log = <<>>
            /\ sent = <<>>
            /\ events = <<>>
            /\ status = "none"
            /\ error = ""
            /\ retval = None
            /\ last = [op |-> "none", prompt |-> "", kwargs |-> EmptyDict,
                       only_completed |-> TRUE, return_sorted |-> FALSE,
                       outcome |-> [kind |-> "none", response |-> EmptyDict,
                                    error |-> ""]]
            /\ pre = [history |-> <<>>, log |-> <<>>]
            /\ ctor = [args |-> a, model_type |-> s.model_type,
                       client |-> s.client, kwargs |-> s.kwargs]
            /\ invoked = <<>>
            /\ nusage = [present |-> 0, nonempty |-> 0]
            /\ ncalls = 0

\* The part of a step common to all three entry points.
Finish(op, r, lg, prompt, oc, rs, kw, outcome, ran) ==
    /\ model_type' = r.self.model_type
    /\ client' = r.self.client
    /\ kwargs' = r.self.kwargs
    /\ history' = r.self.history
    /\ log' = lg
    /\ sent' = r.sent
    /\ events' = r.events
    /\ status' = r.status
    /\ error' = r.error
    /\ retval' = r.retval
    /\ last' = [op |-> op, prompt |-> prompt, kwargs |-> kw,
                only_completed |-> oc, return_sorted |-> rs,
                outcome |-> IF ran THEN outcome
                            ELSE [kind |-> "none", response |-> EmptyDict,
                                  error |-> ""]]
    /\ pre' = [history |-> history, log |-> log]
    /\ invoked' = IF ran
                  THEN Append(invoked, [prompt |-> prompt,
                                        returned |-> outcome.kind = "return"])
                  ELSE invoked
    /\ nusage' = IF op = "__call__" /\ ran /\ outcome.kind = "return"
                    /\ "usage" \in DOMAIN outcome.response
                 THEN [present  |-> nusage.present + 1,
                       nonempty |-> IF DOMAIN outcome.response["usage"] # {}
                                    THEN nusage.nonempty + 1
                                    ELSE nusage.nonempty]
                 ELSE nusage
    /\ ncalls' = ncalls + 1
    /\ UNCHANGED ctor

BasicRequest ==
    /\ ncalls < MaxCalls
    /\ \E p \in Prompts, kw \in Overrides, o \in Outcomes :
          Finish("basic_request", basic_request(Self, p, kw, o), log,
                 p, TRUE, FALSE, kw, o, TRUE)

Request ==
    /\ ncalls < MaxCalls
    /\ \E p \in Prompts, kw \in Overrides, o \in Outcomes :
          Finish("request", request(Self, p, kw, o), log,
                 p, TRUE, FALSE, kw, o, TRUE)

Call ==
    /\ ncalls < MaxCalls
    /\ \E p \in Prompts, oc \in BOOLEAN, rs \in BOOLEAN,
          kw \in Overrides, o \in Outcomes :
          LET r == QianfanLM_call(Self, log, p, oc, rs, kw, o)
          IN  Finish("__call__", r, r.log, p, oc, rs, kw, o,
                     Preconditions(oc, rs))

Next == BasicRequest \/ Request \/ Call

Spec == Init /\ [][Next]_vars

----------------------------------------------------------------------------
(* Vocabulary of the properties *)

\* The last call ran the body of basic_request (it was not stopped by an
\* assert of __call__).
Ran == last.outcome.kind # "none"

\* The vendor client returned a response in the last call.
VendorReturned == last.outcome.kind = "return"

\* The vendor client raised in the last call.
VendorRaised == last.outcome.kind = "raise"

\* The last call was __call__ and passed both asserts.
CallAdmitted == last.op = "__call__" /\ last.only_completed /\ ~last.return_sorted

PromptKey(mt) == IF mt = "chat" THEN "messages" ELSE "prompt"

OtherKey(mt) == IF mt = "chat" THEN "prompt" ELSE "messages"

\* The value the prompt-carrying key must have for prompt p.
PromptValue(mt, p) ==
    IF mt = "chat" THEN <<[role |-> "user", content |-> p]>> ELSE p

IsReturned(e) == e.returned

ReturnedInvocations == SelectSeq(invoked, IsReturned)

UsageNonEmpty(r) == "usage" \in DOMAIN r /\ DOMAIN r["usage"] # {}

BodyResultPresent(r) == "body" \in DOMAIN r /\ "result" \in DOMAIN r["body"]

----------------------------------------------------------------------------
(* C1 *)

\* C1, as stated: the history holds one record per invocation of
\* basic_request, in call order, the i-th record carrying the i-th prompt.
C1_OneRecordPerInvocation ==
    /\ Len(history) = Len(invoked)
    /\ \A i \in 1..Len(history) : history[i].prompt = invoked[i].prompt

\* C1, amended: the history holds one record per invocation of basic_request
\* in which the vendor client returned, in call order, the i-th record
\* carrying the prompt of the i-th such invocation; such an invocation
\* appends exactly one record, with its own prompt, response and overrides.
C1_OneRecordPerReturnedInvocation ==
    /\ Len(history) = Len(ReturnedInvocations)
    /\ \A i \in 1..Len(history) :
          history[i].prompt = ReturnedInvocations[i].prompt
    /\ (Ran /\ VendorReturned) =>
          /\ Len(history) = Len(pre.history) + 1
          /\ SubSeq(history, 1, Len(pre.history)) = pre.history
          /\ history[Len(history)].prompt = last.prompt
          /\ history[Len(history)].response = last.outcome.response
          /\ history[Len(history)].raw_kwargs = last.kwargs

\* Two direct invocations with different prompts and empty overrides.
C1_Witness ==
    /\ Len(history) = 2
    /\ history[1].prompt = "hello" /\ history[2].prompt = "bye"
    /\ last.op = "basic_request" /\ last.kwargs = EmptyDict

(* C2 *)

\* C2: __call__ with only_completed false or return_sorted true raises the
\* assertion error, without invoking the vendor client and leaving history
\* (and the log) as they were.
C2_PreconditionFailsFast ==
    (last.op = "__call__" /\ (~last.only_completed \/ last.return_sorted)) =>
        /\ status = "raised" /\ error = "AssertionError"
        /\ sent = <<>> /\ events = <<>>
        /\ history = pre.history /\ log = pre.log

\* return_sorted=True alone is refused, on an instance that already has a
\* record, with a vendor that would have answered.
C2_Witness ==
    /\ last.op = "__call__" /\ last.only_completed /\ last.return_sorted
    /\ status = "raised" /\ error = "AssertionError"
    /\ Len(history) = 1 /\ last.kwargs # EmptyDict

(* C3 *)

\* C3, as stated: the options given to the vendor client hold the mode's
\* prompt-carrying key with the prompt, and never the other mode's key.
C3_ExactlyOnePromptKey ==
    \A i \in 1..Len(sent) :
        /\ PromptKey(model_type) \in DOMAIN sent[i]
        /\ sent[i][PromptKey(model_type)] = PromptValue(model_type, last.prompt)
        /\ OtherKey(model_type) \notin DOMAIN sent[i]

\* C3, amended: the options hold the mode's prompt-carrying key with the
\* prompt; the other mode's key is in them exactly when the constructor's
\* extra defaults or the call's overrides supply it.
C3_PromptKeyByMode ==
    \A i \in 1..Len(sent) :
        /\ PromptKey(model_type) \in DOMAIN sent[i]
        /\ sent[i][PromptKey(model_type)] = PromptValue(model_type, last.prompt)
        /\ OtherKey(model_type) \in DOMAIN sent[i]
              <=> OtherKey(model_type) \in
                      DOMAIN ctor.args.kwargs \cup DOMAIN last.kwargs

\* Completion mode, prompt "hello": prompt == "hello" and no messages key.
C3_Witness ==
    /\ model_type = "completion" /\ Len(sent) = 1 /\ last.prompt = "hello"
    /\ sent[1]["prompt"] = "hello" /\ "messages" \notin DOMAIN sent[1]

(* C4 *)

\* C4, as stated: every key of the overrides is sent with the override's
\* value, every other default key with its construction-time value.
C4_OverridesWinOnEveryKey ==
    \A i \in 1..Len(sent) :
        /\ \A k \in DOMAIN last.kwargs : sent[i][k] = last.kwargs[k]
        /\ \A k \in DOMAIN ctor.kwargs \ DOMAIN last.kwargs :
              sent[i][k] = ctor.kwargs[k]

\* C4, amended: the same for every key other than the mode's prompt-carrying
\* key, which always carries the call's prompt; model and endpoint are
\* ordinary keys.
C4_OverridesWinExceptPromptKey ==
    \A i \in 1..Len(sent) :
        /\ \A k \in DOMAIN last.kwargs \ {PromptKey(model_type)} :
              sent[i][k] = last.kwargs[k]
        /\ \A k \in (DOMAIN ctor.kwargs \ DOMAIN last.kwargs)
                        \ {PromptKey(model_type)} :
              sent[i][k] = ctor.kwargs[k]
        /\ DOMAIN sent[i] = DOMAIN ctor.kwargs \cup DOMAIN last.kwargs
                               \cup {PromptKey(model_type)}

\* A call overrides model, endpoint and temperature of an instance built
\* with an endpoint, a retry count and its own temperature.
C4_Witness ==
    /\ Len(sent) = 1
    /\ ctor.kwargs["model"] = "ERNIE-4.0-Turbo-8K"
    /\ "endpoint" \in DOMAIN ctor.kwargs /\ ctor.kwargs["endpoint"] = "ep0"
    /\ "model" \in DOMAIN last.kwargs
    /\ sent[1]["model"] = "ERNIE-Speed" /\ sent[1]["endpoint"] = "ep1"
    /\ sent[1]["temperature"] = "0.2" /\ sent[1]["retry_count"] = 3

(* C5 *)

RetryParams == {"retry_count", "request_timeout", "backoff_factor"}

\* C5, as stated: a retry_count (request_timeout, backoff_factor) left out at
\* construction is in the options of no later call.
C5_OmittedNeverSent ==
    \A k \in RetryParams :
        ctor.args[k] = None => \A i \in 1..Len(sent) : k \notin DOMAIN sent[i]

\* C5, amended: a retry_count (request_timeout, backoff_factor) left out at
\* construction is in the options of a call exactly when that call's own
\* overrides supply it, and is never in the instance defaults.
C5_OmittedSentOnlyIfOverridden ==
    \A k \in RetryParams :
        ctor.args[k] = None =>
            /\ k \notin DOMAIN kwargs
            /\ \A i \in 1..Len(sent) :
                  k \in DOMAIN sent[i] <=> k \in DOMAIN last.kwargs

\* Nothing given at construction; a first call supplied retry_count itself,
\* the second did not and sends none.
C5_Witness ==
    /\ \A k \in RetryParams : ctor.args[k] = None
    /\ Len(history) = 2 /\ "retry_count" \in DOMAIN history[1].raw_kwargs
    /\ Len(sent) = 1 /\ last.kwargs = EmptyDict
    /\ \A k \in RetryParams : k \notin DOMAIN sent[1]

(* C6 *)

\* C6: an admitted __call__ whose response has body.result returns a list of
\* exactly one element, the string at body.result.
C6_ReturnsSingleResult ==
    (CallAdmitted /\ VendorReturned /\ BodyResultPresent(last.outcome.response))
        => /\ status = "returned"
           /\ Len(retval) = 1
           /\ Len(retval[1]) = 1
           /\ retval[1][1] = last.outcome.response["body"]["result"]

\* {body: {result: "ok"}, usage: {total_tokens: 42}} yields ["ok"], and the
\* log record mentions 42.
C6_Witness ==
    /\ CallAdmitted /\ status = "returned" /\ retval = <<(<<"ok">>)>>
    /\ UsageNonEmpty(last.outcome.response)
    /\ Len(log) = 1 /\ log[1].total_tokens = <<"4", "2">>

(* C7 *)

\* C7, as stated: the number of usage log records equals the number of
\* __call__ invocations whose response contained a usage mapping.
C7_OneLogPerUsageMapping == Len(log) = nusage.present

\* C7, amended: the number of usage log records equals the number of
\* __call__ invocations whose response contained a non-empty usage mapping;
\* each such call adds exactly one record, every other call adds none, and
\* the call returns whenever body.result is there.
C7_OneLogPerNonEmptyUsage ==
    /\ Len(log) = nusage.nonempty
    /\ Len(log) = Len(pre.log)
          + (IF CallAdmitted /\ VendorReturned
                /\ UsageNonEmpty(last.outcome.response) THEN 1 ELSE 0)
    /\ SubSeq(log, 1, Len(pre.log)) = pre.log
    /\ (CallAdmitted /\ VendorReturned
           /\ BodyResultPresent(last.outcome.response)) => status = "returned"

\* A response with usage and one without, both through __call__, both
\* returning: one log record.
C7_Witness ==
    /\ ncalls = 2 /\ Len(history) = 2 /\ Len(log) = 1 /\ Len(pre.log) = 1
    /\ CallAdmitted /\ status = "returned"
    /\ "usage" \notin DOMAIN last.outcome.response
    /\ nusage.nonempty = 1

(* C8 *)

C9_RecordAndLogBeforeKeyError ==
    (CallAdmitted /\ VendorReturned) =>
        /\ events = <<"client.do", "history.append", "log_usage", "extract">>
        /\ ~BodyResultPresent(last.outcome.response) =>
              /\ status = "raised" /\ error = "KeyError"
              /\ Len(history) = Len(pre.history) + 1
              /\ history[Len(history)].prompt = last.prompt
              /\ history[Len(history)].response = last.outcome.response
              /\ UsageNonEmpty(last.outcome.response) =>
                    Len(log) = Len(pre.log) + 1

\* A response with usage but no body: KeyError, record and log both there.
C9_Witness ==
    /\ CallAdmitted /\ status = "raised" /\ error = "KeyError"
    /\ "body" \notin DOMAIN last.outcome.response
    /\ Len(history) = Len(pre.history) + 1
    /\ Len(log) = Len(pre.log) + 1

(* C10 *)

\* C10: the instance defaults, the mode and the client are those the
\* constructor left, and the options of a call are what these, the call's
\* prompt and the call's overrides give.
C10_ConfigurationUnchanged ==
    /\ kwargs = ctor.kwargs
    /\ model_type = ctor.model_type
    /\ client = ctor.client
    /\ \A i \in 1..Len(sent) :
          /\ DOMAIN sent[i] = DOMAIN ctor.kwargs \cup DOMAIN last.kwargs
                                 \cup {PromptKey(ctor.model_type)}
          /\ \A k \in DOMAIN ctor.kwargs \ (DOMAIN last.kwargs
                                              \cup {PromptKey(ctor.model_type)}) :
                sent[i][k] = ctor.kwargs[k]

\* After a call that overrode temperature and model, a call without
\* overrides sends the constructor's values.
C10_Witness ==
    /\ Len(history) = 2 /\ Len(sent) = 1
    /\ "temperature" \in DOMAIN history[1].raw_kwargs
    /\ last.kwargs = EmptyDict
    /\ sent[1]["temperature"] = "0.7"
    /\ sent[1]["model"] = "ERNIE-4.0-Turbo-8K"
    /\ history[1].prompt # history[2].prompt

====
